---- MODULE Spec2Model ----
(***************************************************************************)
(* Model of the err-into crate (src/src/lib.rs): the extension traits      *)
(* ErrorInto, ResultInto and MapInto on Result and Option.                 *)
(*                                                                         *)
(* A primitive value is a type name plus its little-endian two's           *)
(* complement bytes, so that Into::into between integer types is the       *)
(* widening (zero or sign extension) the language performs, not the        *)
(* identity.  Every operation returns its output container together with   *)
(* the list of conversions it invoked.                                     *)
(***************************************************************************)
EXTENDS Integers, Sequences, FiniteSets, TLC

VARIABLES cur, hist

vars == <<cur, hist>>

\* Longest chain of method calls applied to one input.
MaxChain == 3

----------------------------------------------------------------------------
(* Primitive types and values                                              *)

Types == {"unit", "u8", "i8", "u16", "i16", "i32"}

Size(ty) ==
    CASE ty = "unit" -> 0
      [] ty \in {"u8", "i8"} -> 1
      [] ty \in {"u16", "i16"} -> 2
      [] ty = "i32" -> 4

Signed(ty) == ty \in {"i8", "i16", "i32"}

Prim(ty, bytes) == [ty |-> ty, bytes |-> bytes]

\* Input payloads: the values of the spec's scenarios (5u8, 7u8, 3i8) and
\* values with the top bit set, where zero and sign extension differ.
Literals(ty) ==
    CASE ty = "unit" -> {Prim("unit", <<>>)}
      [] ty = "u8"   -> {Prim("u8", <<5>>), Prim("u8", <<7>>), Prim("u8", <<255>>)}
      [] ty = "i8"   -> {Prim("i8", <<3>>), Prim("i8", <<128>>)}
      [] ty = "u16"  -> {Prim("u16", <<44, 255>>)}
      [] ty = "i16"  -> {Prim("i16", <<254, 255>>)}
      [] ty = "i32"  -> {Prim("i32", <<1, 0, 0, 128>>)}

\* The integer a value denotes (unit denotes 0).
RECURSIVE Unsigned(_)
Unsigned(bytes) ==
    IF bytes = <<>> THEN 0 ELSE Head(bytes) + 256 * Unsigned(Tail(bytes))

Negative(v) == Signed(v.ty) /\ v.bytes[Size(v.ty)] >= 128

Numeric(v) ==
    IF Negative(v)
    THEN Unsigned([i \in 1..Size(v.ty) |-> v.bytes[i] - 255]) - 1
    ELSE Unsigned(v.bytes)

\* `impl From<src> for dst` exists: the reflexive impl and the lossless
\* integer widenings.
HasFrom(src, dst) ==
    \/ src = dst
    \/ /\ src # "unit"
       /\ dst # "unit"
       /\ Size(dst) > Size(src)
       /\ Signed(src) => Signed(dst)

Fill(v) == IF Negative(v) THEN 255 ELSE 0

From_zeroed(v, dst) == Prim(dst, [i \in 1..Size(dst) |-> 0])

From(v, dst) ==
    Prim(dst, v.bytes \o [i \in 1..(Size(dst) - Size(v.ty)) |-> Fill(v)])

Into_noretag(v, dst) == Prim(v.ty, From(v, dst).bytes)

\* The blanket `impl<T, U: From<T>> Into<U> for T`.
Into(v, dst) == From(v, dst)

----------------------------------------------------------------------------
(* Containers                                                              *)

Ok(v, T, E)  == [kind |-> "Result", tag |-> "Ok", val |-> v, T |-> T, E |-> E]
Err(v, T, E) == [kind |-> "Result", tag |-> "Err", val |-> v, T |-> T, E |-> E]
Some(v, T)   == [kind |-> "Option", tag |-> "Some", val |-> v, T |-> T]
None(T)      == [kind |-> "Option", tag |-> "None", T |-> T]

Call(ch, v, dst) == [ch |-> ch, src |-> v.ty, dst |-> dst]

Ret(out, calls) == [out |-> out, calls |-> calls]

\* Result::map(self, Into::into) with target success type U.
ResultMap(self, U) ==
    IF self.tag = "Ok"
    THEN Ret(Ok(Into(self.val, U), U, self.E), <<Call("ok", self.val, U)>>)
    ELSE Ret(Err(self.val, U, self.E), <<>>)

ResultMapErr_touchOk(self, E) ==
    IF self.tag = "Err"
    THEN Ret(Err(Into(self.val, E), self.T, E), <<Call("err", self.val, E)>>)
    ELSE Ret(Ok(self.val, self.T, E), <<Call("err", self.val, E)>>)

\* Result::map_err(self, Into::into) with target error type E.
ResultMapErr(self, E) ==
    IF self.tag = "Err"
    THEN Ret(Err(Into(self.val, E), self.T, E), <<Call("err", self.val, E)>>)
    ELSE Ret(Ok(self.val, self.T, E), <<>>)

OptionMap_none(self, U) == Ret(None(U), <<>>)

\* Option::map(self, Into::into) with target type U.
OptionMap(self, U) ==
    IF self.tag = "Some"
    THEN Ret(Some(Into(self.val, U), U), <<Call("some", self.val, U)>>)
    ELSE Ret(None(U), <<>>)

\* `Ok(get_data()?)` in a function returning Result<T, E>.
QuestionMark(self, E) ==
    IF self.tag = "Ok"
    THEN Ret(Ok(self.val, self.T, E), <<>>)
    ELSE Ret(Err(From(self.val, E), self.T, E), <<Call("err", self.val, E)>>)

----------------------------------------------------------------------------
(* The crate's methods                                                     *)

err_into_skip(self, E) == Ret([self EXCEPT !.E = E], <<>>)

err_into(self, E) == ResultMapErr(self, E)

res_into_map_only(self, T, E) ==
    LET a == ResultMap(self, T) IN Ret([a.out EXCEPT !.E = E], a.calls)

res_into_err_only(self, T, E) ==
    LET b == ResultMapErr(self, E) IN Ret([b.out EXCEPT !.T = T], b.calls)

res_into_eager(self, T, E) ==
    LET a == ResultMap(self, T)
        b == ResultMapErr(a.out, E)
    IN  Ret(b.out, <<Call("ok", self.val, T), Call("err", self.val, E)>>)

res_into(self, T, E) ==
    LET a == ResultMap(self, T)
        b == ResultMapErr(a.out, E)
    IN  Ret(b.out, a.calls \o b.calls)

map_into_result_skip(self, U) == Ret([self EXCEPT !.T = U], <<>>)

map_into_result(self, U) == ResultMap(self, U)

map_into_option_skip(self, U) == Ret([self EXCEPT !.T = U], <<>>)

map_into_option(self, U) == OptionMap(self, U)

----------------------------------------------------------------------------
(* State machine: an input container and a chain of method calls on it     *)

Op(name, T, E) == [name |-> name, T |-> T, E |-> E]

Step(op, self, r) == [op |-> op, self |-> self, ret |-> r.out, calls |-> r.calls]

Inputs ==
    UNION { { Ok(v, T, E) : v \in Literals(T) } \cup { Err(v, T, E) : v \in Literals(E) }
            : <<T, E>> \in Types \X Types }
    \cup UNION { { Some(v, T) : v \in Literals(T) } \cup { None(T) } : T \in Types }

Init ==
    /\ cur \in Inputs
    /\ hist = <<>>

Apply(op, r) ==
    /\ Len(hist) < MaxChain
    /\ hist' = Append(hist, Step(op, cur, r))
    /\ cur' = r.out

ErrInto ==
    /\ cur.kind = "Result"
    /\ \E E \in Types :
        /\ HasFrom(cur.E, E)
        /\ Apply(Op("err_into", cur.T, E), err_into(cur, E))

ResInto ==
    /\ cur.kind = "Result"
    /\ \E T \in Types, E \in Types :
        /\ HasFrom(cur.T, T)
        /\ HasFrom(cur.E, E)
        /\ Apply(Op("res_into", T, E), res_into(cur, T, E))

MapIntoResult ==
    /\ cur.kind = "Result"
    /\ \E U \in Types :
        /\ HasFrom(cur.T, U)
        /\ Apply(Op("map_into", U, cur.E), map_into_result(cur, U))

MapIntoOption ==
    /\ cur.kind = "Option"
    /\ \E U \in Types :
        /\ HasFrom(cur.T, U)
        /\ Apply(Op("map_into", U, "unit"), map_into_option(cur, U))

Next ==
    \/ ErrInto
    \/ ResInto
    \/ MapIntoResult
    \/ MapIntoOption

Spec == Init /\ [][Next]_vars

----------------------------------------------------------------------------
(* Properties                                                              *)

Calls(name, kind) ==
    { i \in DOMAIN hist : hist[i].op.name = name /\ hist[i].self.kind = kind }

u8(n)  == Prim("u8", <<n>>)
i8(n)  == Prim("i8", <<n>>)
i32(n) == Prim("i32", <<n, 0, 0, 0>>)

\* C1: err_into returns Ok(t) with the same payload when the input is Ok(t)
\* and Err(convert(e)) when the input is Err(e), the converted error having
\* the target type and denoting the same number; the result equals that of
\* map_err(Into::into) and of the question-mark operator on the same input
\* (Err(7u8) becomes Err(7i32)).
C1_ErrInto ==
    \A i \in Calls("err_into", "Result") :
        LET h == hist[i] IN
        /\ h.self.tag = "Ok" => h.ret = Ok(h.self.val, h.self.T, h.op.E)
        /\ h.self.tag = "Err" =>
            /\ h.ret = Err(Into(h.self.val, h.op.E), h.self.T, h.op.E)
            /\ h.ret.val.ty = h.op.E
            /\ Numeric(h.ret.val) = Numeric(h.self.val)
        /\ h.ret = ResultMapErr(h.self, h.op.E).out
        /\ h.ret = QuestionMark(h.self, h.op.E).out
        /\ (h.self = Err(u8(7), "unit", "u8") /\ h.op.E = "i32")
              => h.ret = Err(i32(7), "unit", "i32")

C1_Witness ==
    \E i \in Calls("err_into", "Result") :
        /\ hist[i].self = Err(u8(7), "unit", "u8")
        /\ hist[i].op.E = "i32"
        /\ hist[i].ret = Err(i32(7), "unit", "i32")

\* C2: res_into returns Ok(convert(t)) when the input is Ok(t) and
\* Err(convert(e)) when the input is Err(e), with the success conversion on
\* the Ok branch and the error conversion on the Err branch
\* (Err(3i8) of Result<u16, i8> becomes Err(3i32) of Result<u16, i32>).
C2_ResInto ==
    \A i \in Calls("res_into", "Result") :
        LET h == hist[i] IN
        /\ h.self.tag = "Ok" =>
            /\ h.ret = Ok(Into(h.self.val, h.op.T), h.op.T, h.op.E)
            /\ h.ret.val.ty = h.op.T
            /\ Numeric(h.ret.val) = Numeric(h.self.val)
        /\ h.self.tag = "Err" =>
            /\ h.ret = Err(Into(h.self.val, h.op.E), h.op.T, h.op.E)
            /\ h.ret.val.ty = h.op.E
            /\ Numeric(h.ret.val) = Numeric(h.self.val)
        /\ (h.self = Err(i8(3), "u16", "i8") /\ h.op.T = "u16" /\ h.op.E = "i32")
              => h.ret = Err(i32(3), "u16", "i32")

C2_Witness ==
    \E i \in Calls("res_into", "Result") :
        /\ hist[i].self = Err(i8(3), "u16", "i8")
        /\ hist[i].op.T = "u16"
        /\ hist[i].op.E = "i32"
        /\ hist[i].ret = Err(i32(3), "u16", "i32")

\* C3: map_into on a Result returns Ok(convert(t)) when the input is Ok(t)
\* and Err(e) with the identical error value when the input is Err(e); the
\* result equals Result::map(self, Into::into)
\* (Ok(5u8) of Result<u8, u8> becomes Ok(5i32) of Result<i32, u8>).
C3_MapIntoResult ==
    \A i \in Calls("map_into", "Result") :
        LET h == hist[i] IN
        /\ h.self.tag = "Ok" =>
            /\ h.ret = Ok(Into(h.self.val, h.op.T), h.op.T, h.self.E)
            /\ h.ret.val.ty = h.op.T
            /\ Numeric(h.ret.val) = Numeric(h.self.val)
        /\ h.self.tag = "Err" => h.ret = Err(h.self.val, h.op.T, h.self.E)
        /\ h.ret = ResultMap(h.self, h.op.T).out
        /\ (h.self = Ok(u8(5), "u8", "u8") /\ h.op.T = "i32")
              => h.ret = Ok(i32(5), "i32", "u8")

C3_Witness ==
    \E i \in Calls("map_into", "Result") :
        /\ hist[i].self = Ok(u8(5), "u8", "u8")
        /\ hist[i].op.T = "i32"
        /\ hist[i].ret = Ok(i32(5), "i32", "u8")

\* C4: map_into on an Option returns Some(convert(t)) when the input is
\* Some(t) and None when the input is None; the result equals
\* Option::map(self, Into::into)
\* (Some(5u8) becomes Some(5i32), None of Option<u8> becomes None).
C4_MapIntoOption ==
    \A i \in Calls("map_into", "Option") :
        LET h == hist[i] IN
        /\ h.self.tag = "Some" =>
            /\ h.ret = Some(Into(h.self.val, h.op.T), h.op.T)
            /\ h.ret.val.ty = h.op.T
            /\ Numeric(h.ret.val) = Numeric(h.self.val)
        /\ h.self.tag = "None" => h.ret = None(h.op.T)
        /\ h.ret = OptionMap(h.self, h.op.T).out
        /\ (h.self = Some(u8(5), "u8") /\ h.op.T = "i32")
              => h.ret = Some(i32(5), "i32")

C4_Witness ==
    \E i \in Calls("map_into", "Option") :
        /\ hist[i].self = Some(u8(5), "u8")
        /\ hist[i].op.T = "i32"
        /\ hist[i].ret = Some(i32(5), "i32")

\* C5: for every Result r and every pair of conversions, res_into(r),
\* err_into(map_into(r)) and map_into(err_into(r)) are equal: a res_into
\* call returns what either composition returns, and a map_into call
\* followed by an err_into call (or the reverse) arrives at what res_into
\* returns on the value the pair started from.
C5_Commute ==
    /\ \A i \in Calls("res_into", "Result") :
        LET h == hist[i] IN
        /\ h.ret = err_into(map_into_result(h.self, h.op.T).out, h.op.E).out
        /\ h.ret = map_into_result(err_into(h.self, h.op.E).out, h.op.T).out
    /\ \A i \in DOMAIN hist :
        (i > 1 /\ hist[i].self.kind = "Result") =>
            LET a == hist[i - 1]
                b == hist[i]
            IN  /\ (a.op.name = "map_into" /\ b.op.name = "err_into")
                      => b.ret = res_into(a.self, a.op.T, b.op.E).out
                /\ (a.op.name = "err_into" /\ b.op.name = "map_into")
                      => b.ret = res_into(a.self, b.op.T, a.op.E).out

C5_Witness ==
    /\ Len(hist) >= 3
    /\ hist[1].op.name = "map_into"
    /\ hist[2].op.name = "err_into"
    /\ hist[3].op.name = "res_into"
    /\ hist[1].self.kind = "Result"
    /\ hist[1].op.T # hist[1].self.T
    /\ hist[2].op.E # hist[2].self.E
    /\ hist[3].op.T # hist[3].self.T

Identity(h) ==
    /\ h.op.name \in {"res_into", "map_into"} => h.op.T = h.self.T
    /\ (h.op.name \in {"res_into", "err_into"} /\ h.self.kind = "Result")
          => h.op.E = h.self.E

\* C6: when every conversion used is the identity conversion, each of
\* err_into, res_into, map_into returns a container equal to its input, and
\* a chain of such calls leaves the value it started from unchanged.
C6_Identity ==
    /\ \A i \in DOMAIN hist : Identity(hist[i]) => hist[i].ret = hist[i].self
    /\ (hist # <<>> /\ \A i \in DOMAIN hist : Identity(hist[i]))
          => cur = hist[1].self

C6_Witness ==
    /\ Len(hist) >= 3
    /\ \A i \in DOMAIN hist : Identity(hist[i])
    /\ { hist[i].op.name : i \in DOMAIN hist } = {"err_into", "res_into", "map_into"}
    /\ cur = Err(u8(255), "i16", "u8")

\* C7: the variant tag of the output of err_into, res_into and map_into
\* equals the tag of the input, for every choice of conversions, and after
\* any chain of these calls the tag is still that of the first input.
C7_TagPreserved ==
    /\ \A i \in DOMAIN hist :
        /\ hist[i].ret.tag = hist[i].self.tag
        /\ hist[i].ret.kind = hist[i].self.kind
    /\ hist # <<>> =>
        /\ cur.tag = hist[1].self.tag
        /\ cur.kind = hist[1].self.kind

C7_Witness ==
    /\ Len(hist) >= 2
    /\ hist[1].self = Some(i8(128), "i8")
    /\ hist[1].op.T = "i16"
    /\ hist[2].op.T = "i32"
    /\ cur.tag = "Some"

WellFormedPrim(v, ty) ==
    /\ v.ty = ty
    /\ Len(v.bytes) = Size(ty)
    /\ \A k \in DOMAIN v.bytes : v.bytes[k] \in 0..255

WellFormedResult(c, T, E) ==
    /\ DOMAIN c = {"kind", "tag", "val", "T", "E"}
    /\ c.kind = "Result"
    /\ c.T = T
    /\ c.E = E
    /\ c.tag \in {"Ok", "Err"}
    /\ c.tag = "Ok" => WellFormedPrim(c.val, T)
    /\ c.tag = "Err" => WellFormedPrim(c.val, E)

WellFormedOption(c, T) ==
    /\ c.kind = "Option"
    /\ c.T = T
    /\ c.tag \in {"Some", "None"}
    /\ c.tag = "Some" => (DOMAIN c = {"kind", "tag", "val", "T"} /\ WellFormedPrim(c.val, T))
    /\ c.tag = "None" => DOMAIN c = {"kind", "tag", "T"}

\* C8: with total conversions, every call of err_into, res_into and map_into
\* yields a concrete output container of the requested type, for every input
\* variant and every declared conversion: the calls made so far did, and so
\* does every call that can be made on the current value.
C8_Total ==
    /\ \A i \in DOMAIN hist :
        LET h == hist[i] IN
        IF h.self.kind = "Result"
        THEN WellFormedResult(h.ret, h.op.T, h.op.E)
        ELSE WellFormedOption(h.ret, h.op.T)
    /\ cur.kind = "Result" =>
        \A T \in Types, E \in Types :
            /\ HasFrom(cur.E, E) => WellFormedResult(err_into(cur, E).out, cur.T, E)
            /\ HasFrom(cur.T, T) => WellFormedResult(map_into_result(cur, T).out, T, cur.E)
            /\ (HasFrom(cur.T, T) /\ HasFrom(cur.E, E))
                  => WellFormedResult(res_into(cur, T, E).out, T, E)
    /\ cur.kind = "Option" =>
        \A T \in Types :
            HasFrom(cur.T, T) => WellFormedOption(map_into_option(cur, T).out, T)

C8_Witness ==
    /\ Len(hist) >= 3
    /\ { hist[i].self.tag : i \in DOMAIN hist } = {"Ok"}
    /\ hist[1].op.name = "res_into"
    /\ hist[2].op.name = "map_into"
    /\ hist[3].op.name = "err_into"
    /\ hist[1].self.T = "i8"
    /\ cur.T = "i32"
    /\ cur.E = "i32"

\* C9: a res_into call invokes exactly one conversion, the success
\* conversion when the input is Ok and the error conversion when the input
\* is Err; no call of the library invokes more than one conversion.
C9_OneConversion ==
    /\ \A i \in Calls("res_into", "Result") :
        LET h == hist[i] IN
        /\ Len(h.calls) = 1
        /\ h.self.tag = "Ok" => h.calls[1] = [ch |-> "ok", src |-> h.self.T, dst |-> h.op.T]
        /\ h.self.tag = "Err" => h.calls[1] = [ch |-> "err", src |-> h.self.E, dst |-> h.op.E]
    /\ \A i \in DOMAIN hist : Len(hist[i].calls) <= 1

C9_Witness ==
    /\ Len(hist) >= 2
    /\ hist[1].op.name = "res_into"
    /\ hist[2].op.name = "res_into"
    /\ hist[1].self.tag = "Ok"
    /\ hist[1].calls = <<[ch |-> "ok", src |-> "u8", dst |-> "u16"]>>
    /\ hist[1].op.E # hist[1].self.E

\* C10: on the pass-through branch no conversion is invoked and the value is
\* unchanged: err_into on Ok(t) and map_into on Err(e) invoke none and keep
\* the payload, map_into on None invokes none.
C10_PassThrough ==
    /\ \A i \in Calls("err_into", "Result") :
        hist[i].self.tag = "Ok" =>
            /\ hist[i].calls = <<>>
            /\ hist[i].ret.val = hist[i].self.val
    /\ \A i \in Calls("map_into", "Result") :
        hist[i].self.tag = "Err" =>
            /\ hist[i].calls = <<>>
            /\ hist[i].ret.val = hist[i].self.val
    /\ \A i \in Calls("map_into", "Option") :
        hist[i].self.tag = "None" => hist[i].calls = <<>>

C10_Witness ==
    \/ /\ Len(hist) >= 2
       /\ hist[1].op.name = "err_into"
       /\ hist[1].self.tag = "Ok"
       /\ hist[1].op.E # hist[1].self.E
       /\ hist[2].op.name = "map_into"
       /\ hist[2].op.T # hist[2].self.T
    \/ /\ Len(hist) >= 1
       /\ hist[1].op.name = "map_into"
       /\ hist[1].self.tag = "None"
       /\ hist[1].op.T # hist[1].self.T

====
